---- MODULE Spec2Model ----
EXTENDS Integers, Sequences, FiniteSets, TLC

(***************************************************************************)
(* Model of the AquaChain dashboard: the supply-chain graph builders of    *)
(* network_model.py and app.py (GraphSpec) and the Streamlit session /     *)
(* credential-store workflow of app.py (Spec).                             *)
(***************************************************************************)

VARIABLES
    transactions,   \* rows of the transactions table (records keyed by column)
    batches,        \* rows of the batches table
    logistics,      \* rows of the logistics table
    out,            \* result of the last graph / analytics call
    usersCsv,       \* rows of users.csv as text; <<>> while the file does not exist
    session_state,  \* st.session_state of every browser session
    selected,       \* value the option_menu component holds for the session
    screen,         \* what the session's last script run rendered
    call            \* the session's save_user call between load_users and to_csv

graphVars == <<transactions, batches, logistics, out>>
appVars == <<usersCsv, session_state, selected, screen, call>>
vars == <<transactions, batches, logistics, out,
          usersCsv, session_state, selected, screen, call>>

\* ------------------------------------------------------------------ bounds
MaxTx == 2
MaxBatch == 1
MaxLog == 1
MaxUsers == 2

SeqsUpTo(S, n) == UNION {[1..k -> S] : k \in 0..n}

\* ------------------------------------------------------- table row domains
Entities == {"A", "B"}
Targets == {"B"}
Locations == {"A", "L"}
BatchIds == {"B1", "B2"}
Dates == {1, 2}

\* A transactions row as every reader of the table expects it.
TxRowsFull ==
    [from_entity : Entities, to_entity : Targets, batch_id : BatchIds,
     transaction_date : Dates, payment_term : {"net30"}]

\* An uploaded sheet that carries only the three graph columns.
TxRowsShort ==
    [from_entity : Entities, to_entity : Targets, batch_id : BatchIds]

BatchRows == [batch_id : {"B1", "B3"}, origin : {"pond"}]

\* Logistics rows with the columns build_supply_chain_graph reads.
LogRowsMove ==
    [from_location : Locations, to_location : Targets,
     move_date : Dates, logistics_cost : {5}]

\* Logistics rows with the columns detect_bottlenecks reads.
LogRowsLeg ==
    [batch_id : {"B1"}, from_location : Locations, to_location : Targets,
     start_date : {1}, end_date : {1, 3}, cost : {5}]

\* ------------------------------------------------------------ nx.DiGraph
EmptyAttrs == [c \in {} |-> 0]

DiGraph == [status |-> "ok", nodes |-> {}, edges |-> [e \in {} |-> EmptyAttrs]]

Raised(kind) == [status |-> kind, nodes |-> {}, edges |-> [e \in {} |-> EmptyAttrs]]

NoCall == [op |-> "none", input |-> "none", value |-> Raised("none")]

add_node(G, n) == [G EXCEPT !.nodes = @ \cup {n}]

\* add_edge as it would be if an edge did not create its endpoints.
add_edge_keeps_nodes(G, u, v, attr) ==
    LET old == IF <<u, v>> \in DOMAIN G.edges THEN G.edges[<<u, v>>] ELSE EmptyAttrs
    IN  [G EXCEPT
            !.edges = [e \in DOMAIN G.edges \cup {<<u, v>>} |->
                          IF e = <<u, v>> THEN attr @@ old ELSE G.edges[e]]]

\* DiGraph.add_edge: both endpoints become nodes; an existing (u, v) edge is
\* kept and its attribute dict updated with the new keys.
add_edge(G, u, v, attr) ==
    LET old == IF <<u, v>> \in DOMAIN G.edges THEN G.edges[<<u, v>>] ELSE EmptyAttrs
    IN  [G EXCEPT
            !.nodes = @ \cup {u, v},
            !.edges = [e \in DOMAIN G.edges \cup {<<u, v>>} |->
                          IF e = <<u, v>> THEN attr @@ old ELSE G.edges[e]]]

Has(row, cols) == cols \subseteq DOMAIN row

\* ----------------------------------------- network_model.build_supply_chain_graph
RECURSIVE AddBatches(_, _, _)
AddBatches(G, rows, i) ==
    IF G.status # "ok" \/ i > Len(rows) THEN G
    ELSE LET batch == rows[i] IN
         IF ~Has(batch, {"batch_id", "origin"}) THEN Raised("KeyError")
         ELSE AddBatches(add_node(G, batch.batch_id), rows, i + 1)

RECURSIVE AddTransactions(_, _, _)
AddTransactions(G, rows, i) ==
    IF G.status # "ok" \/ i > Len(rows) THEN G
    ELSE LET row == rows[i] IN
         IF ~Has(row, {"from_entity", "to_entity", "batch_id",
                       "transaction_date", "payment_term"})
         THEN Raised("KeyError")
         ELSE AddTransactions(
                add_edge(add_node(add_node(G, row.from_entity), row.to_entity),
                         row.from_entity, row.to_entity,
                         [batch_id |-> row.batch_id,
                          date |-> row.transaction_date,
                          payment_term |-> row.payment_term]),
                rows, i + 1)

RECURSIVE AddLogistics(_, _, _)
AddLogistics(G, rows, i) ==
    IF G.status # "ok" \/ i > Len(rows) THEN G
    ELSE LET row == rows[i] IN
         IF ~Has(row, {"from_location", "to_location", "move_date", "logistics_cost"})
         THEN Raised("KeyError")
         ELSE AddLogistics(
                add_edge(G, row.from_location, row.to_location,
                         [date |-> row.move_date, cost |-> row.logistics_cost]),
                rows, i + 1)

build_supply_chain_graph(tx, bs, lg) ==
    AddLogistics(AddTransactions(AddBatches(DiGraph, bs, 1), tx, 1), lg, 1)

\* ------------------------------------------------ network_model.detect_bottlenecks
\* Names bound at module level in network_model.py.
NetworkModelGlobals == {"nx"}

RECURSIVE SumDays(_, _)
SumDays(rows, i) ==
    IF i > Len(rows) THEN 0
    ELSE (rows[i].end_date - rows[i].start_date) + SumDays(rows, i + 1)

\* days > mean * 1.5, the mean being SumDays / Len, kept in integers.
Outliers(rows) ==
    {i \in 1..Len(rows) :
        2 * Len(rows) * (rows[i].end_date - rows[i].start_date) > 3 * SumDays(rows, 1)}

detect_bottlenecks(lg) ==
    IF "pd" \notin NetworkModelGlobals THEN [status |-> "NameError", rows |-> {}]
    ELSE IF \E i \in 1..Len(lg) : ~Has(lg[i], {"start_date", "end_date"})
    THEN [status |-> "KeyError", rows |-> {}]
    ELSE [status |-> "ok", rows |-> Outliers(lg)]

\* ------------------------------------------------ app.analytics_center.build_graph
RECURSIVE AddRows(_, _, _)
AddRows(G, rows, i) ==
    IF i > Len(rows) THEN G
    ELSE LET row == rows[i] IN
         AddRows(
            add_edge(add_node(add_node(add_node(G, row.from_entity), row.to_entity),
                              row.batch_id),
                     row.from_entity, row.to_entity, [batch |-> row.batch_id]),
            rows, i + 1)

\* build_graph as it would be without the batch nodes.
RECURSIVE AddRowsEntitiesOnly(_, _, _)
AddRowsEntitiesOnly(G, rows, i) ==
    IF i > Len(rows) THEN G
    ELSE LET row == rows[i] IN
         AddRowsEntitiesOnly(
            add_edge(add_node(add_node(G, row.from_entity), row.to_entity),
                     row.from_entity, row.to_entity, [batch |-> row.batch_id]),
            rows, i + 1)

build_graph_entities_only(df) ==
    IF \A i \in 1..Len(df) : Has(df[i], {"from_entity", "to_entity", "batch_id"})
    THEN AddRowsEntitiesOnly(DiGraph, df, 1)
    ELSE DiGraph

build_graph(df) ==
    IF \A i \in 1..Len(df) : Has(df[i], {"from_entity", "to_entity", "batch_id"})
    THEN AddRows(DiGraph, df, 1)
    ELSE DiGraph


\* ------------------------------------------------------- credential store
Sessions == {1, 2}
None == "None"
REGISTRATION_ROLE == "User"

Usernames == {"alice", "07"}
Passwords == {"pw1", "pw2"}

\* hashlib.sha256(pw.encode()).hexdigest(), leading hex digits.
hash_pw(pw) ==
    CASE pw = "pw1" -> "c592df4a"
      [] pw = "pw2" -> "93915a0a"
      [] OTHER -> "e3b0c442"

\* Text cells that pd.read_csv infers to be integers, and their values.
IntTexts == {"07", "7"}
IntOf(t) == CASE t = "07" -> 7 [] t = "7" -> 7
TextOf(i) == CASE i = 7 -> "7"

StrCell(t) == [t |-> "str", i |-> 0, s |-> t]
IntCell(n) == [t |-> "int", i |-> n, s |-> ""]

\* pd.read_csv types a column int64 when every cell of it parses as an
\* integer, and object (strings) otherwise.
ParseColumn(texts) ==
    IF Len(texts) > 0 /\ \A k \in 1..Len(texts) : texts[k] \in IntTexts
    THEN [k \in 1..Len(texts) |-> IntCell(IntOf(texts[k]))]
    ELSE [k \in 1..Len(texts) |-> StrCell(texts[k])]

Column(rows, c) == [k \in 1..Len(rows) |-> rows[k][c]]

load_users ==
    LET u == ParseColumn(Column(usersCsv, "username"))
        p == ParseColumn(Column(usersCsv, "password"))
        r == ParseColumn(Column(usersCsv, "role"))
    IN  [k \in 1..Len(usersCsv) |-> [username |-> u[k], password |-> p[k], role |-> r[k]]]

\* DataFrame.to_csv writes an integer without its leading zeros.
FormatCell(c) == IF c.t = "int" THEN TextOf(c.i) ELSE c.s

to_csv(users) ==
    [k \in 1..Len(users) |->
        [username |-> FormatCell(users[k].username),
         password |-> FormatCell(users[k].password),
         role |-> FormatCell(users[k].role)]]

\* Python ==: a str never equals an int.
EqStr(cell, str) == cell.t = "str" /\ cell.s = str

Taken(users, username) == \E k \in 1..Len(users) : EqStr(users[k].username, username)

NewUser(username, password, role) ==
    [username |-> StrCell(username), password |-> StrCell(hash_pw(password)),
     role |-> StrCell(role)]

\* validate_login as it would be if it compared the username only.
validate_login_by_name(username, password) ==
    LET users == load_users
        match == {k \in 1..Len(users) : EqStr(users[k].username, username)}
    IN  IF match # {}
        THEN users[CHOOSE k \in match : \A j \in match : k <= j].role.s
        ELSE None

validate_login(username, password) ==
    LET users == load_users
        match == {k \in 1..Len(users) :
                    /\ EqStr(users[k].username, username)
                    /\ EqStr(users[k].password, hash_pw(password))}
    IN  IF match # {}
        THEN users[CHOOSE k \in match : \A j \in match : k <= j].role.s
        ELSE None

\* ------------------------------------------------------------- data frames
NoFrame == [kind |-> "None", cols |-> {}]
Frame(cols) == [kind |-> "frame", cols |-> cols]

DemoCols ==
    {"order_id", "status", "created_at", "payment_due_date", "amount",
     "from_entity", "to_entity", "batch_id", "payment_date", "delivery_date",
     "transaction_date", "start_date", "end_date", "shipment_id", "delivered",
     "delivery_eta", "paid"}

load_demo_csv == Frame(DemoCols)

NoFile == [content |-> "none", pos |-> "start"]

\* Files a user can hand to the sidebar uploader: one pd.read_csv cannot
\* decode, and a sheet that has a shipment_id column but no delivery columns.
Uploads == {[content |-> "undecodable", pos |-> "start"],
            [content |-> "sheet", pos |-> "start"]}

SheetCols == {"shipment_id", "status"}

\* pd.read_csv(csv_file): raises on an undecodable file and on a handle whose
\* read position is already at the end; reading moves the position to the end.
read_csv_raises(f) == f.content = "undecodable" \/ f.pos = "eof"

\* df as the script computes it for the run.
LoadDf(csv_file) ==
    IF csv_file # NoFile
    THEN IF read_csv_raises(csv_file) THEN NoFrame ELSE Frame(SheetCols)
    ELSE load_demo_csv

\* ------------------------------------------------------------------- pages
Modules == {"Home Dashboard", "Orders", "Shipments", "Analytics",
            "Documents", "Suppliers", "Settings"}

menu_options(role) == IF role = "Admin" THEN Modules \cup {"User Management"} ELSE Modules

\* df[cols]: a KeyError when a column is missing.
Select(df, cols) == IF cols \subseteq df.cols THEN "ok" ELSE "KeyError"

\* The first failure of two steps run in order.
Then(first, second) == IF first # "ok" THEN first ELSE second

get_alerts(df) ==
    Then(IF df.kind # "None" /\ {"payment_due_date", "paid"} \subseteq df.cols
         THEN Select(df, {"payment_due_date", "paid"}) ELSE "ok",
         IF df.kind # "None" /\ {"delivery_eta", "delivered"} \subseteq df.cols
         THEN Select(df, {"delivery_eta", "delivered"}) ELSE "ok")

home_dashboard(df) == get_alerts(df)

orders_center(df) ==
    IF df.kind # "None"
    THEN Select(df, {"order_id", "status", "created_at", "payment_due_date", "amount"}
                      \cap df.cols)
    ELSE "ok"

\* shipments_center as it would be without the df is not None test.
shipments_center_unguarded(df) ==
    IF df.kind = "None" THEN "AttributeError"
    ELSE IF "shipment_id" \in df.cols
    THEN Select(df, {"shipment_id", "status", "delivery_eta", "delivered"})
    ELSE "ok"

shipments_center(df) ==
    IF df.kind # "None" /\ "shipment_id" \in df.cols
    THEN Select(df, {"shipment_id", "status", "delivery_eta", "delivered"})
    ELSE "ok"

analytics_center(df) ==
    IF df.kind # "None"
    THEN Then(IF {"from_entity", "to_entity", "batch_id"} \subseteq df.cols
              THEN Select(df, {"from_entity", "to_entity", "batch_id"}) ELSE "ok",
         Then(IF {"payment_date", "delivery_date", "transaction_date"} \subseteq df.cols
              THEN Select(df, {"payment_date", "delivery_date", "transaction_date"})
              ELSE "ok",
              IF {"start_date", "end_date"} \subseteq df.cols
              THEN Select(df, {"start_date", "end_date"}) ELSE "ok"))
    ELSE "ok"

\* Routing as it would be without the role test on User Management.
RouteBySelectionOnly(sel, role, df) ==
    CASE sel = "Home Dashboard" -> [page |-> sel, status |-> home_dashboard(df)]
      [] sel = "Orders" -> [page |-> sel, status |-> orders_center(df)]
      [] sel = "Shipments" -> [page |-> sel, status |-> shipments_center(df)]
      [] sel = "Analytics" -> [page |-> sel, status |-> analytics_center(df)]
      [] sel \in {"Documents", "Suppliers", "Settings"} -> [page |-> sel, status |-> "ok"]
      [] sel = "User Management" -> [page |-> sel, status |-> "ok"]
      [] OTHER -> [page |-> "blank", status |-> "ok"]

\* Navigation routing: the module rendered for the selected entry.
Route(sel, role, df) ==
    CASE sel = "Home Dashboard" -> [page |-> sel, status |-> home_dashboard(df)]
      [] sel = "Orders" -> [page |-> sel, status |-> orders_center(df)]
      [] sel = "Shipments" -> [page |-> sel, status |-> shipments_center(df)]
      [] sel = "Analytics" -> [page |-> sel, status |-> analytics_center(df)]
      [] sel \in {"Documents", "Suppliers", "Settings"} -> [page |-> sel, status |-> "ok"]
      [] sel = "User Management" /\ role = "Admin" -> [page |-> sel, status |-> "ok"]
      [] OTHER -> [page |-> "blank", status |-> "ok"]

Screen(page, notice, df, status) ==
    [page |-> page, notice |-> notice, df |-> df, status |-> status]

NoNotice == [kind |-> "none", username |-> "", password |-> ""]
Notice(kind) == [kind |-> kind, username |-> "", password |-> ""]

Idle == [pc |-> "idle", users |-> <<>>, username |-> "", password |-> ""]

LoggedOut(ss) == [ss EXCEPT !.logged_in = FALSE, !.username = None, !.role = None]

\* The part of the script below the login gate, for a run that reaches it:
\* get_uploaded_csv, the csv load with its demo fallback, and the routing.
Dashboard(s, ss, sel, upload) ==
    LET csv_file == IF ss.uploaded_csv # NoFile THEN ss.uploaded_csv ELSE upload
        df == LoadDf(csv_file)
        r == Route(sel, ss.role, df)
    IN  /\ session_state' =
             [session_state EXCEPT ![s] =
                [ss EXCEPT !.uploaded_csv =
                    IF csv_file = NoFile THEN NoFile ELSE [csv_file EXCEPT !.pos = "eof"]]]
        /\ selected' = [selected EXCEPT ![s] = sel]
        /\ screen' = [screen EXCEPT ![s] = Screen(r.page, NoNotice, df, r.status)]

\* A run that stops at the login gate.
Gate(s, ss, page, notice) ==
    /\ session_state' = [session_state EXCEPT ![s] = ss]
    /\ screen' = [screen EXCEPT ![s] = Screen(page, notice, NoFrame, "ok")]
    /\ UNCHANGED selected

OnDashboard(s) == session_state[s].logged_in /\ screen[s].page \in Modules \cup {"User Management", "blank"}

\* The entry option_menu returns in a run without a click on it: the one
\* the front end still holds, or the default first entry.
Held(s) == {selected[s], "Home Dashboard"}


\* ------------------------------------------------------------ app actions
InitialSession ==
    [logged_in |-> FALSE, username |-> None, role |-> None,
     registration_mode |-> FALSE, uploaded_csv |-> NoFile]

\* users.csv before the first run: absent, or holding an account whose role
\* an administrator has raised in the file.
InitialStores ==
    {<<>>, <<[username |-> "alice", password |-> hash_pw("pw1"), role |-> "Admin"]>>}

AppInit ==
    /\ usersCsv \in InitialStores
    /\ session_state = [s \in Sessions |-> InitialSession]
    /\ selected = [s \in Sessions |-> "Home Dashboard"]
    /\ screen = [s \in Sessions |-> Screen("login", NoNotice, NoFrame, "ok")]
    /\ call = [s \in Sessions |-> Idle]

\* Login button of login_page.
Login(s, username, password) ==
    LET ss == session_state[s] IN
    /\ screen[s].page = "login"
    /\ call[s].pc = "idle"
    /\ UNCHANGED <<usersCsv, call>>
    /\ UNCHANGED graphVars
    /\ IF ss.registration_mode
       THEN Gate(s, ss, "registration", NoNotice)
       ELSE LET role == validate_login(username, password) IN
            IF role # None /\ role # ""
            THEN \E sel \in Held(s) :
                    Dashboard(s, [ss EXCEPT !.logged_in = TRUE, !.username = username,
                                            !.role = role], sel, NoFile)
            ELSE Gate(s, ss, "login", Notice("Incorrect username or password."))

\* Register New Account button of login_page.
RegisterNewAccount(s) ==
    LET ss == session_state[s] IN
    /\ screen[s].page = "login"
    /\ call[s].pc = "idle"
    /\ UNCHANGED <<usersCsv, call>>
    /\ UNCHANGED graphVars
    /\ IF ss.registration_mode
       THEN Gate(s, ss, "registration", NoNotice)
       ELSE Gate(s, [ss EXCEPT !.registration_mode = TRUE], "login", NoNotice)

\* Create Account button of registration_page, up to the point where
\* save_user has read users.csv.
CreateAccount(s, username, password, password2) ==
    LET ss == session_state[s]
        users == load_users
    IN
    /\ screen[s].page = "registration"
    /\ call[s].pc = "idle"
    /\ UNCHANGED usersCsv
    /\ UNCHANGED graphVars
    /\ IF ~ss.registration_mode
       THEN Gate(s, ss, "login", NoNotice) /\ UNCHANGED call
       ELSE IF username = "" \/ password = ""
       THEN Gate(s, ss, "registration", Notice("Please complete all fields."))
            /\ UNCHANGED call
       ELSE IF password # password2
       THEN Gate(s, ss, "registration", Notice("Passwords do not match."))
            /\ UNCHANGED call
       ELSE IF Taken(users, username)
       THEN Gate(s, ss, "registration", Notice("That username is already taken."))
            /\ UNCHANGED call
       ELSE /\ Len(users) < MaxUsers
            /\ call' = [call EXCEPT ![s] =
                          [pc |-> "to_csv",
                           users |-> Append(users, NewUser(username, password, REGISTRATION_ROLE)),
                           username |-> username, password |-> password]]
            /\ UNCHANGED <<session_state, selected, screen>>

\* The rest of that run: save_user rewrites users.csv and returns True.
SaveUserWrite(s) ==
    LET ss == session_state[s] IN
    /\ call[s].pc = "to_csv"
    /\ UNCHANGED graphVars
    /\ usersCsv' = to_csv(call[s].users)
    /\ call' = [call EXCEPT ![s] = Idle]
    /\ Gate(s, [ss EXCEPT !.registration_mode = FALSE], "registration",
            [kind |-> "Registration successful! Please log in below.",
             username |-> call[s].username, password |-> call[s].password])

\* Return to Login button of registration_page.
ReturnToLogin(s) ==
    LET ss == session_state[s] IN
    /\ screen[s].page = "registration"
    /\ call[s].pc = "idle"
    /\ UNCHANGED <<usersCsv, call>>
    /\ UNCHANGED graphVars
    /\ IF ~ss.registration_mode
       THEN Gate(s, ss, "login", NoNotice)
       ELSE Gate(s, [ss EXCEPT !.registration_mode = FALSE], "registration", NoNotice)

\* Logout button of the sidebar: the session is cleared and the script reruns.
Logout(s) ==
    LET ss == LoggedOut(session_state[s]) IN
    /\ OnDashboard(s)
    /\ UNCHANGED <<usersCsv, call>>
    /\ UNCHANGED graphVars
    /\ Gate(s, ss, IF ss.registration_mode THEN "registration" ELSE "login", NoNotice)

\* A click on an entry of the navigation bar.
Navigate(s, sel) ==
    /\ OnDashboard(s)
    /\ sel \in menu_options(session_state[s].role)
    /\ UNCHANGED <<usersCsv, call>>
    /\ UNCHANGED graphVars
    /\ Dashboard(s, session_state[s], sel, NoFile)

\* A file handed to the sidebar uploader, shown while no file is kept.
Upload(s, file) ==
    /\ OnDashboard(s)
    /\ session_state[s].uploaded_csv = NoFile
    /\ UNCHANGED <<usersCsv, call>>
    /\ UNCHANGED graphVars
    /\ \E sel \in Held(s) : Dashboard(s, session_state[s], sel, file)

Init ==
    /\ AppInit
    /\ transactions = <<>> /\ batches = <<>> /\ logistics = <<>> /\ out = NoCall

\* Two browser sessions registering, logging in and out against one users.csv.
Next ==
    \/ \E s \in Sessions, u \in Usernames \cup {""}, p \in Passwords \cup {""} :
          Login(s, u, p)
    \/ \E s \in Sessions : RegisterNewAccount(s)
    \/ \E s \in Sessions, u \in Usernames \cup {""}, p \in Passwords \cup {""},
          p2 \in Passwords : CreateAccount(s, u, p, p2)
    \/ \E s \in Sessions : SaveUserWrite(s)
    \/ \E s \in Sessions : ReturnToLogin(s)
    \/ \E s \in Sessions : Logout(s)

Spec == Init /\ [][Next]_vars

\* One browser session using every control of the portal.
Visitor == CHOOSE s \in Sessions : \A t \in Sessions : s <= t

NavNext ==
    \/ \E u \in Usernames \cup {""}, p \in Passwords \cup {""} : Login(Visitor, u, p)
    \/ RegisterNewAccount(Visitor)
    \/ \E u \in Usernames \cup {""}, p \in Passwords \cup {""}, p2 \in Passwords :
          CreateAccount(Visitor, u, p, p2)
    \/ SaveUserWrite(Visitor)
    \/ ReturnToLogin(Visitor)
    \/ Logout(Visitor)
    \/ \E sel \in Modules \cup {"User Management"} : Navigate(Visitor, sel)
    \/ \E f \in Uploads : Upload(Visitor, f)

NavSpec == Init /\ [][NavNext]_vars


\* -------------------------------------------------------------- app claims
FirstMatch(username, password) ==
    LET users == load_users
        match == {k \in 1..Len(users) :
                    /\ users[k].username = StrCell(username)
                    /\ users[k].password = StrCell(hash_pw(password))}
    IN  IF match = {} THEN 0 ELSE CHOOSE k \in match : \A j \in match : k <= j

Typed == (Usernames \cup {""}) \X (Passwords \cup {""})

Auth(ss) == <<ss.logged_in, ss.username, ss.role>>

SessionClear ==
    \A s \in Sessions :
        ~session_state[s].logged_in =>
            session_state[s].username = None /\ session_state[s].role = None

SessionStep ==
    \A s \in Sessions :
        LET a == session_state[s]
            b == session_state'[s]
        IN
        /\ \A t \in Typed :
              Login(s, t[1], t[2]) =>
                  IF b.logged_in
                  THEN /\ FirstMatch(t[1], t[2]) # 0
                       /\ b.username = t[1]
                       /\ b.role = load_users[FirstMatch(t[1], t[2])].role.s
                  ELSE Auth(b) = Auth(a)
        /\ (~a.logged_in /\ b.logged_in) => \E t \in Typed : Login(s, t[1], t[2])
        /\ (a.logged_in /\ ~b.logged_in) => Logout(s)
        /\ (a.logged_in /\ b.logged_in) => Auth(b) = Auth(a)

\* C4: a session is logged in only from a Login click whose username and
\* hashed password match a stored record until the next Logout click; it then
\* holds that username and the role of the first matching record; a session
\* that is not logged in holds username None and role None; a failed Login
\* changes none of the three.
C4_SessionFollowsStore == []SessionClear /\ [][SessionStep]_vars

C4_Witness ==
    \E s \in Sessions :
        /\ session_state[s].logged_in
        /\ session_state[s].username = "07"
        /\ session_state[s].role = "User"
        /\ \E t \in Sessions :
              session_state[t].logged_in /\ session_state[t].role = "Admin"

\* C5: when pd.read_csv raises on the kept upload, the run goes on with
\* df = None (the demo frame is used only while no file is kept) and the
\* selected page renders without raising.
C5_BadUploadRendersWithoutData ==
    \A s \in Sessions :
        OnDashboard(s) =>
            /\ (session_state[s].uploaded_csv # NoFile /\ screen[s].df = NoFrame)
                  => screen[s].status = "ok"
            /\ session_state[s].uploaded_csv.content = "undecodable"
                  => screen[s].df = NoFrame
            /\ screen[s].df = load_demo_csv => session_state[s].uploaded_csv = NoFile

C5_Witness ==
    \E s \in Sessions :
        /\ OnDashboard(s)
        /\ session_state[s].uploaded_csv.content = "undecodable"
        /\ screen[s].page = "Shipments"
        /\ screen[s].df = NoFrame
        /\ screen[s].status = "ok"

\* C6: a dashboard module is on screen only for a logged-in session (any
\* other run ends on the login or registration page), and User Management is
\* on screen only for a session whose role is Admin, also when it is the
\* entry the navigation bar still holds.
C6_ModulesBehindLogin ==
    \A s \in Sessions :
        /\ screen[s].page \in Modules \cup {"User Management", "blank"}
              => session_state[s].logged_in
        /\ ~session_state[s].logged_in => screen[s].page \in {"login", "registration"}
        /\ screen[s].page = "User Management" => session_state[s].role = "Admin"

C6_Witness ==
    \E s \in Sessions :
        /\ session_state[s].logged_in
        /\ session_state[s].role = "User"
        /\ selected[s] = "User Management"
        /\ screen[s].page = "blank"

\* C7: Create Account appends one (username, hash, User) record only for a
\* username that is not stored yet, so the usernames of the credential store
\* stay pairwise distinct.
C7_UsernamesStayDistinct ==
    LET users == load_users IN
    /\ \A i, j \in 1..Len(users) : i # j => users[i].username # users[j].username
    /\ \A s \in Sessions :
          call[s].pc = "to_csv" =>
              /\ session_state[s].registration_mode
              /\ call[s].users[Len(call[s].users)].role = StrCell(REGISTRATION_ROLE)

\* C8: once save_user has returned True for (u, p), the store holds u with
\* the hash of p and validate_login(u, p) returns its role, whatever other
\* sessions register meanwhile.
C8_AcknowledgedRegistrationLogsIn ==
    \A s \in Sessions :
        screen[s].notice.kind = "Registration successful! Please log in below." =>
            /\ FirstMatch(screen[s].notice.username, screen[s].notice.password) # 0
            /\ validate_login(screen[s].notice.username, screen[s].notice.password) # None

\* ----------------------------------------------------------- graph actions
GraphInit ==
    /\ transactions \in SeqsUpTo(TxRowsFull, MaxTx) \cup SeqsUpTo(TxRowsShort, MaxTx)
    /\ batches \in SeqsUpTo(BatchRows, MaxBatch)
    /\ logistics \in SeqsUpTo(LogRowsMove, MaxLog) \cup SeqsUpTo(LogRowsLeg, MaxLog)
    /\ out = NoCall
    /\ AppInit
    /\ usersCsv = <<>>

BuildSupplyChainGraph ==
    /\ out' = [op |-> "build_supply_chain_graph", input |-> "tables",
               value |-> build_supply_chain_graph(transactions, batches, logistics)]
    /\ UNCHANGED <<transactions, batches, logistics>>
    /\ UNCHANGED appVars

BuildGraph ==
    /\ out' = [op |-> "build_graph", input |-> "tables",
               value |-> build_graph(transactions)]
    /\ UNCHANGED <<transactions, batches, logistics>>
    /\ UNCHANGED appVars

DetectBottlenecks ==
    /\ out' = [op |-> "detect_bottlenecks", input |-> "tables",
               value |-> LET r == detect_bottlenecks(logistics)
                         IN  [Raised(r.status) EXCEPT !.nodes = r.rows]]
    /\ UNCHANGED <<transactions, batches, logistics>>
    /\ UNCHANGED appVars

GraphNext ==
    \/ BuildSupplyChainGraph
    \/ BuildGraph
    \/ DetectBottlenecks

GraphSpec == GraphInit /\ [][GraphNext]_vars

\* ------------------------------------------------------------ graph claims
Rows(t) == {t[i] : i \in 1..Len(t)}

IsFullTx(t) == \A r \in Rows(t) : DOMAIN r = DOMAIN CHOOSE x \in TxRowsFull : TRUE
IsLegLog(t) == \A r \in Rows(t) : DOMAIN r = DOMAIN CHOOSE x \in LogRowsLeg : TRUE

FieldValues ==
    {r.batch_id : r \in Rows(batches)}
    \cup {r.from_entity : r \in Rows(transactions)}
    \cup {r.to_entity : r \in Rows(transactions)}
    \cup {r.from_location : r \in Rows(logistics)}
    \cup {r.to_location : r \in Rows(logistics)}

BuiltFromTables ==
    /\ out.op = "build_supply_chain_graph"
    /\ out.input = "tables"
    /\ out.value.status = "ok"

\* C1: the node set of the graph build_supply_chain_graph returns is exactly
\* the union of the batch ids, the transaction endpoints and the logistics
\* endpoints of its three tables.
C1_NodesAreFieldUnion == BuiltFromTables => out.value.nodes = FieldValues

C1_Witness ==
    /\ BuiltFromTables
    /\ Len(batches) > 0 /\ Len(transactions) > 0 /\ Len(logistics) > 0
    /\ "L" \in out.value.nodes /\ "B3" \in out.value.nodes

TxEdgeCarries(G, r) ==
    /\ <<r.from_entity, r.to_entity>> \in DOMAIN G.edges
    /\ LET a == G.edges[<<r.from_entity, r.to_entity>>] IN
       /\ "batch_id" \in DOMAIN a /\ a.batch_id = r.batch_id
       /\ "date" \in DOMAIN a /\ a.date = r.transaction_date
       /\ "payment_term" \in DOMAIN a /\ a.payment_term = r.payment_term

LogEdgeCarries(G, r) ==
    /\ <<r.from_location, r.to_location>> \in DOMAIN G.edges
    /\ LET a == G.edges[<<r.from_location, r.to_location>>] IN
       /\ "date" \in DOMAIN a /\ a.date = r.move_date
       /\ "cost" \in DOMAIN a /\ a.cost = r.logistics_cost

AppEdgeCarries(G, r) ==
    /\ <<r.from_entity, r.to_entity>> \in DOMAIN G.edges
    /\ G.edges[<<r.from_entity, r.to_entity>>].batch = r.batch_id

\* C2: every transaction row and every logistics row is an edge of the built
\* graph that carries that row's own attribute values, also when several rows
\* share one (source, target) pair.
C2_EveryRowIsItsOwnEdge ==
    /\ BuiltFromTables =>
          /\ \A r \in Rows(transactions) : TxEdgeCarries(out.value, r)
          /\ \A r \in Rows(logistics) : LogEdgeCarries(out.value, r)
    /\ (out.op = "build_graph" /\ Len(transactions) > 0) =>
          \A r \in Rows(transactions) : AppEdgeCarries(out.value, r)

\* C3: a logistics table with the LogisticsMove fields (batch_id,
\* from_location, to_location, start_date, end_date, cost) is accepted by
\* build_supply_chain_graph, which yields its edges, and by detect_bottlenecks.
C3_LegTableAccepted ==
    (IsFullTx(transactions) /\ IsLegLog(logistics) /\ out.input = "tables") =>
        /\ out.op = "build_supply_chain_graph" =>
              /\ out.value.status = "ok"
              /\ \A r \in Rows(logistics) :
                    <<r.from_location, r.to_location>> \in DOMAIN out.value.edges
        /\ out.op = "detect_bottlenecks" => out.value.status = "ok"

TxBatchIds == {r.batch_id : r \in Rows(transactions)}

\* C9 as stated: for any transactions table build_graph and
\* build_supply_chain_graph (empty batches and logistics) give the same node
\* set and the same edges, batch = batch_id on each edge.
C9_SameGraph ==
    out.op = "build_graph" =>
        LET H == build_supply_chain_graph(transactions, <<>>, <<>>) IN
        /\ H.status = "ok"
        /\ out.value.nodes = H.nodes
        /\ DOMAIN out.value.edges = DOMAIN H.edges
        /\ \A e \in DOMAIN H.edges : out.value.edges[e].batch = H.edges[e].batch_id

\* C9 amended: for a transactions table that has the five columns
\* build_supply_chain_graph reads, both builders give the same edges with
\* batch = batch_id on each, and build_graph's node set is the other's node
\* set plus the transactions' batch ids.
C9_SameEdgesBatchNodesExtra ==
    (out.op = "build_graph" /\ IsFullTx(transactions)) =>
        LET H == build_supply_chain_graph(transactions, <<>>, <<>>) IN
        /\ H.status = "ok"
        /\ out.value.nodes = H.nodes \cup TxBatchIds
        /\ DOMAIN out.value.edges = DOMAIN H.edges
        /\ \A e \in DOMAIN H.edges : out.value.edges[e].batch = H.edges[e].batch_id

C9_Witness ==
    /\ out.op = "build_graph"
    /\ IsFullTx(transactions)
    /\ Len(transactions) = 2
    /\ transactions[1].from_entity = transactions[2].from_entity
    /\ transactions[1].batch_id # transactions[2].batch_id
    /\ Cardinality(DOMAIN out.value.edges) = 1

====
